---- MODULE Spec2Model ----
(***************************************************************************)
(* Identity-federation authentication of the Tailscale API client          *)
(* (identityfederation.go): IdentityFederation.HTTPClient builds an        *)
(* oauth2.Transport over oauth2.ReuseTokenSource(nil, s), where s is the   *)
(* identityFederationTokenSource whose Token() fetches and validates an    *)
(* ID token and exchanges it for an API access token.                      *)
(*                                                                         *)
(* Time is counted in seconds.  A step of the model is the straight-line   *)
(* code between two blocking points of a request: waiting for a mutex,     *)
(* the idTokenFunc callback, the token-exchange round trip and the         *)
(* forwarded API round trip.  Tick lets time pass between steps.           *)
(***************************************************************************)
EXTENDS Integers, Sequences, FiniteSets, TLC

\* ---------------------------------------------------------------- bounds
NumProcs == 2
MaxRequests == 2
MaxTime == 2
\* the most dot-separated segments of a token handed to validateIDToken
MaxParts == 4
\* the most log entries in a response to GetNetworkFlowLogs
MaxEntries == 2

Procs == 1..NumProcs

\* ------------------------------------------------------------- constants
\* golang.org/x/oauth2 (v0.30.0, go.mod) treats a token as expired
\* defaultExpiryDelta = 10 s before its Expiry.
defaultExpiryDelta == 10
\* http.StatusBadRequest
StatusBadRequest == 400
\* a safety margin of 5 minutes, in seconds
SafetyMargin == 5 * 60

\* ------------------------------------------------------- identity tokens
\* A token string is a sequence of characters.  A character is either the
\* separator '.' or an atom standing for a run of non-separator
\* characters; an atom records what the decoders make of that run.
Dot == [k |-> "dot", b64 |-> FALSE, json |-> FALSE, hasExp |-> FALSE, exp |-> 0]
Atom(b, j, h, e) == [k |-> "seg", b64 |-> b, json |-> j, hasExp |-> h, exp |-> e]
Hdr == Atom(TRUE, TRUE, FALSE, 0)
Sig == Atom(TRUE, FALSE, FALSE, 0)
\* createIDToken(exp) of the tests: header.{"exp":exp}.signature
createIDToken(e) == <<Hdr, Dot, Atom(TRUE, TRUE, TRUE, e), Dot, Sig>>

\* strings.Split(s, "."): the pieces between separators, empty ones kept.
RECURSIVE SplitAcc(_, _, _)
SplitAcc(s, cur, acc) ==
    IF s = <<>> THEN Append(acc, cur)
    ELSE IF Head(s).k = "dot" THEN SplitAcc(Tail(s), <<>>, Append(acc, cur))
    ELSE SplitAcc(Tail(s), Append(cur, Head(s)), acc)
Split(s) == SplitAcc(s, <<>>, <<>>)

\* base64.RawURLEncoding.DecodeString: fails on any run that is not
\* unpadded base64url, otherwise yields the decoded bytes.
DecodeString(seg) ==
    IF \E i \in 1..Len(seg) : ~seg[i].b64
    THEN [err |-> TRUE, bytes |-> <<>>]
    ELSE [err |-> FALSE, bytes |-> seg]

\* json.Unmarshal(payload, &claims) into jwtClaims{Exp int64}: an absent
\* "exp" key leaves Exp at its zero value.
Unmarshal(bytes) ==
    IF Len(bytes) = 1 /\ bytes[1].json
    THEN [err |-> FALSE, Exp |-> IF bytes[1].hasExp THEN bytes[1].exp ELSE 0]
    ELSE [err |-> TRUE, Exp |-> 0]

\* time.Time.After / Before on whole seconds
After(a, b) == a > b
Before(a, b) == a < b

NoError == <<>>

\* variant: a token whose signature segment is empty or not base64url is
\* rejected
validateIDTokenSigned(tokenStr, t) ==
    LET parts == Split(tokenStr) IN
    IF Len(parts) # 3 THEN <<"invalid JWT format">>
    ELSE IF parts[3] = <<>> \/ DecodeString(parts[3]).err THEN <<"invalid signature">>
    ELSE LET payload == DecodeString(parts[2]) IN
    IF payload.err THEN <<"failed to decode JWT payload">>
    ELSE LET claims == Unmarshal(payload.bytes) IN
    IF claims.err THEN <<"failed to parse JWT claims">>
    ELSE IF claims.Exp = 0 THEN <<"JWT is missing 'exp' (expiration) claim">>
    ELSE IF After(t, claims.Exp) THEN <<"ID token has expired">>
    ELSE NoError

\* variant: the expiry is tested before the zero value of Exp
validateIDTokenExpiryFirst(tokenStr, t) ==
    LET parts == Split(tokenStr) IN
    IF Len(parts) # 3 THEN <<"invalid JWT format">>
    ELSE LET payload == DecodeString(parts[2]) IN
    IF payload.err THEN <<"failed to decode JWT payload">>
    ELSE LET claims == Unmarshal(payload.bytes) IN
    IF claims.err THEN <<"failed to parse JWT claims">>
    ELSE IF After(t, claims.Exp) THEN <<"ID token has expired">>
    ELSE IF claims.Exp = 0 THEN <<"JWT is missing 'exp' (expiration) claim">>
    ELSE NoError

\* variant: the expiry test taken as now >= exp
validateIDTokenAtOrAfter(tokenStr, t) ==
    LET parts == Split(tokenStr) IN
    IF Len(parts) # 3 THEN <<"invalid JWT format">>
    ELSE LET payload == DecodeString(parts[2]) IN
    IF payload.err THEN <<"failed to decode JWT payload">>
    ELSE LET claims == Unmarshal(payload.bytes) IN
    IF claims.err THEN <<"failed to parse JWT claims">>
    ELSE IF claims.Exp = 0 THEN <<"JWT is missing 'exp' (expiration) claim">>
    ELSE IF t >= claims.Exp THEN <<"ID token has expired">>
    ELSE NoError

\* variant: the claim counts as missing only when the payload has no "exp" key
validateIDTokenPresence(tokenStr, t) ==
    LET parts == Split(tokenStr) IN
    IF Len(parts) # 3 THEN <<"invalid JWT format">>
    ELSE LET payload == DecodeString(parts[2]) IN
    IF payload.err THEN <<"failed to decode JWT payload">>
    ELSE LET claims == Unmarshal(payload.bytes) IN
    IF claims.err THEN <<"failed to parse JWT claims">>
    ELSE IF ~payload.bytes[1].hasExp THEN <<"JWT is missing 'exp' (expiration) claim">>
    ELSE IF After(t, claims.Exp) THEN <<"ID token has expired">>
    ELSE NoError

\* validateIDToken with time.Now() = t; the result is the error's message
\* (NoError for nil).
validateIDToken(tokenStr, t) ==
    LET parts == Split(tokenStr) IN
    IF Len(parts) # 3 THEN <<"invalid JWT format">>
    ELSE LET payload == DecodeString(parts[2]) IN
    IF payload.err THEN <<"failed to decode JWT payload">>
    ELSE LET claims == Unmarshal(payload.bytes) IN
    IF claims.err THEN <<"failed to parse JWT claims">>
    ELSE IF claims.Exp = 0 THEN <<"JWT is missing 'exp' (expiration) claim">>
    ELSE IF After(t, claims.Exp) THEN <<"ID token has expired">>
    ELSE NoError

\* jwtClaims.Exp of a token that has a decodable payload, else 0
ExpOf(tokenStr) ==
    LET parts == Split(tokenStr) IN
    IF Len(parts) # 3 THEN 0
    ELSE LET payload == DecodeString(parts[2]) IN
    IF payload.err THEN 0 ELSE Unmarshal(payload.bytes).Exp

\* ---------------------------------------------------------- oauth2.Token
NilToken == [nil |-> TRUE, AccessToken |-> <<>>, TokenType |-> "", Expiry |-> 0]
Token(a, ty, e) == [nil |-> FALSE, AccessToken |-> a, TokenType |-> ty, Expiry |-> e]

\* variant: expiry tested without the expiry delta
expiredNoDelta(tk, t) == Before(tk.Expiry, t)

\* oauth2.Token.expired: Expiry - expiryDelta is before now
expired(tk, t) == Before(tk.Expiry - defaultExpiryDelta, t)

\* oauth2.Token.Valid
Valid(tk, t) == ~tk.nil /\ tk.AccessToken # <<>> /\ ~expired(tk, t)

\* variant: the token_type field used verbatim
TypeVerbatim(tk) == tk.TokenType

\* oauth2.Token.Type
Type(tk) ==
    IF tk.TokenType \in {"Bearer", "bearer"} THEN "Bearer"
    ELSE IF tk.TokenType # "" THEN tk.TokenType
    ELSE "Bearer"

\* oauth2.Token.SetAuthHeader: the Authorization header value
SetAuthHeader(tk) == <<Type(tk), tk.AccessToken>>

\* ------------------------------------------------------------ environment
\* what idTokenFunc may return: an error, or a token string
IdExps == {1, 1000}
IDTokenResults ==
    {[err |-> TRUE, tok |-> <<>>]} \cup
    {[err |-> FALSE, tok |-> s] : s \in
        {createIDToken(e) : e \in IdExps} \cup {<<Hdr, Dot, Sig>>}}

\* what the token-exchange round trip may produce
ExpiresInChoices == {1, 11}
TokenTypes == {"Bearer", ""}
Statuses == {200, StatusBadRequest - 1, StatusBadRequest}
\* A response body either is a JSON token response (decodable) or is not;
\* the access_token of a token response may be the empty string.
ExchangeResults ==
    {[neterr |-> TRUE, status |-> 0, decodable |-> FALSE, empty |-> FALSE,
      TokenType |-> "", ExpiresIn |-> 0]} \cup
    {[neterr |-> FALSE, status |-> st, decodable |-> FALSE, empty |-> FALSE,
      TokenType |-> "", ExpiresIn |-> 0] : st \in Statuses} \cup
    {[neterr |-> FALSE, status |-> st, decodable |-> TRUE, empty |-> FALSE,
      TokenType |-> ty, ExpiresIn |-> n] :
        st \in {c \in Statuses : c < StatusBadRequest},
        ty \in TokenTypes, n \in ExpiresInChoices} \cup
    {[neterr |-> FALSE, status |-> 200, decodable |-> TRUE, empty |-> TRUE,
      TokenType |-> "", ExpiresIn |-> 11]} \cup
    {[neterr |-> FALSE, status |-> st, decodable |-> TRUE, empty |-> FALSE,
      TokenType |-> "Bearer", ExpiresIn |-> 11] :
        st \in {c \in Statuses : c >= StatusBadRequest}}

\* io.ReadAll(resp.Body): the raw body of a response
ReadAll(r) ==
    IF r.decodable
    THEN <<"access_token", r.empty, "token_type", r.TokenType, "expires_in", r.ExpiresIn>>
    ELSE <<"not a token response">>

\* the http.Client values HTTPClient may be given as orig: one with a
\* transport, timeout, redirect policy and cookie jar of the caller's, and
\* the zero value
CustomClient ==
    [Transport |-> "customTransport", CheckRedirect |-> "policy", Jar |-> "jar",
     Timeout |-> 30]
ZeroClient == [Transport |-> "nil", CheckRedirect |-> "nil", Jar |-> "nil", Timeout |-> 0]

\* the IdentityFederation values, clients and base URLs HTTPClient may be given
Configs ==
    {[clientID |-> "client-id", hasIDTokenFunc |-> TRUE, baseURL |-> "https://api",
      orig |-> CustomClient],
     [clientID |-> "", hasIDTokenFunc |-> TRUE, baseURL |-> "https://api",
      orig |-> ZeroClient],
     [clientID |-> "client-id", hasIDTokenFunc |-> FALSE, baseURL |-> "https://api",
      orig |-> CustomClient]}

\* ------------------------------------------------------------------ state
VARIABLES
    now,            \* time.Now(), seconds
    cfg,            \* the IdentityFederation value and baseURL handed to HTTPClient
    constructed,    \* HTTPClient has returned the client
    idToken,        \* identityFederationTokenSource.idToken
    mu,             \* identityFederationTokenSource.mu: 0 or the holder
    reuseT,         \* reuseTokenSource.t
    reuseMu,        \* reuseTokenSource.mu: 0 or the holder
    issue,          \* when and with which expires_in reuseT was issued
    pc,             \* where each caller's request is
    requests,       \* requests handed to the client so far
    reqTok,         \* the token Source.Token() returned to the caller's RoundTrip
    calls,          \* provider / exchange calls of the refresh in progress
    seen,           \* what the refresh in progress found in idToken
    waiters,        \* callers that arrived during a refresh and still wait for the mutex
    fetched,        \* what idTokenFunc returned to the refresh in progress
    exReq,          \* the token-exchange request of the refresh in progress
    last,           \* caller, outcome and forwarded header of the request that
                    \* completed last, kept until another request is issued
    providerCalls,  \* calls of idTokenFunc so far
    exchangeCalls,  \* token-exchange requests sent so far
    ctxDone,        \* the context of the caller's request in flight is done
                    \* (cancelled, or its deadline has passed)
    test,           \* a direct call of validateIDToken: its argument and result
    client,         \* the http.Client HTTPClient returned, with the token source's http
    wire,           \* the RoundTrippers requests have been sent through
    built,          \* a call of Client.buildRequest: receiver, arguments, result
    flow            \* a call of GetNetworkFlowLogs: response, progress, result

vars == <<now, cfg, constructed, idToken, mu, reuseT, reuseMu, issue, pc, requests,
          reqTok, calls, seen, waiters, fetched, exReq, last, providerCalls,
          exchangeCalls, ctxDone, test, client, wire, built, flow>>

NoReq == [sent |-> FALSE, client_id |-> "", jwt |-> <<>>, url |-> <<>>, ctx |-> "", at |-> 0]
NoHeader == <<>>
NoSeen == [what |-> "none", tok |-> <<>>]
NoLast == [by |-> 0, kind |-> "none", err |-> <<>>, header |-> NoHeader]
NoTest == [token |-> <<>>, called |-> FALSE, err |-> NoError]
NoClient ==
    [Transport |-> [Base |-> "none", Source |-> [http |-> ZeroClient]],
     CheckRedirect |-> "none", Jar |-> "none", Timeout |-> 0]

\* the header names buildRequest and its callers set
HeaderNames == {"User-Agent", "Accept", "Content-Type", "Authorization", "If-Match"}
\* http.Header of a new request: no name has a value
EmptyHeader == [n \in HeaderNames |-> <<>>]
NoOpts == [headers |-> <<>>, body |-> "nil", contentType |-> ""]
NoBuilt ==
    [c |-> [APIKey |-> "", UserAgent |-> ""], method |-> "", opts |-> NoOpts,
     called |-> FALSE, err |-> NoError, Header |-> EmptyHeader, sent |-> <<>>]
NoResp == [neterr |-> FALSE, status |-> 0, prelude |-> "", entries |-> <<>>, tail |-> ""]
NoFlow ==
    [resp |-> NoResp, pc |-> "none", pos |-> 0, handled |-> <<>>, ctxErr |-> FALSE,
     err |-> NoError]

\* http.Client.transport and oauth2.Transport.base: a nil RoundTripper
\* stands for http.DefaultTransport
RoundTripperOf(t) == IF t = "nil" THEN "DefaultTransport" ELSE t

Init ==
    /\ now = 0
    /\ cfg \in Configs
    /\ constructed = FALSE
    /\ idToken = <<>>
    /\ mu = 0
    /\ reuseT = NilToken
    /\ reuseMu = 0
    /\ issue = [at |-> 0, ExpiresIn |-> 0]
    /\ pc = [p \in Procs |-> "idle"]
    /\ requests = 0
    /\ reqTok = [p \in Procs |-> NilToken]
    /\ calls = <<>>
    /\ seen = NoSeen
    /\ waiters = {}
    /\ fetched = <<>>
    /\ exReq = NoReq
    /\ last = NoLast
    /\ providerCalls = 0
    /\ exchangeCalls = 0
    /\ ctxDone = [p \in Procs |-> FALSE]
    /\ test = NoTest
    /\ client = NoClient
    /\ wire = {}
    /\ built = NoBuilt
    /\ flow = NoFlow

\* ---------------------------------------------------------------- actions
\* variant: a timer refreshes the access token in the background once no
\* valid one is cached
TickBackgroundRefresh ==
    /\ now < MaxTime
    /\ now' = now + 1
    /\ exchangeCalls' = IF constructed /\ reuseMu = 0 /\ ~Valid(reuseT, now)
                        THEN exchangeCalls + 1 ELSE exchangeCalls
    /\ UNCHANGED <<built, flow, test, client, wire>>
    /\ UNCHANGED <<cfg, constructed, idToken, mu, reuseT, reuseMu, issue, pc, requests,
                   reqTok, calls, seen, waiters, fetched, exReq, last, providerCalls,
                   ctxDone>>

\* time passes
Tick ==
    /\ now < MaxTime
    /\ now' = now + 1
    /\ UNCHANGED <<built, flow, test, client, wire>>
    /\ UNCHANGED <<cfg, constructed, idToken, mu, reuseT, reuseMu, issue, pc, requests,
                   reqTok, calls, seen, waiters, fetched, exReq, last, providerCalls,
                   exchangeCalls, ctxDone>>

\* variant: construction runs idTokenFunc and one exchange before returning
HTTPClientEager ==
    /\ ~constructed
    /\ constructed' = TRUE
    /\ idToken' = createIDToken(1000)
    /\ reuseT' = NilToken
    /\ providerCalls' = providerCalls + 1
    /\ exchangeCalls' = exchangeCalls + 1
    /\ client' = [Transport |-> [Base |-> cfg.orig.Transport,
                                 Source |-> [http |-> cfg.orig]],
                  CheckRedirect |-> cfg.orig.CheckRedirect,
                  Jar |-> cfg.orig.Jar,
                  Timeout |-> cfg.orig.Timeout]
    /\ UNCHANGED <<built, flow, test, wire>>
    /\ UNCHANGED <<now, cfg, mu, reuseMu, issue, pc, requests, reqTok, calls, seen,
                   waiters, fetched, exReq, last, ctxDone>>

\* variant: the returned client is a fresh one: default transport, no
\* timeout, redirect policy or cookie jar
HTTPClientReplacing ==
    /\ ~constructed
    /\ constructed' = TRUE
    /\ idToken' = <<>>
    /\ reuseT' = NilToken
    /\ client' = [Transport |-> [Base |-> "nil", Source |-> [http |-> ZeroClient]],
                  CheckRedirect |-> "nil", Jar |-> "nil", Timeout |-> 0]
    /\ UNCHANGED <<built, flow, test, wire>>
    /\ UNCHANGED <<now, cfg, mu, reuseMu, issue, pc, requests, reqTok, calls, seen,
                   waiters, fetched, exReq, last, providerCalls, exchangeCalls,
                   ctxDone>>

\* IdentityFederation.HTTPClient: builds the token source and the client.
HTTPClient ==
    /\ ~constructed
    /\ constructed' = TRUE
    /\ idToken' = <<>>
    /\ reuseT' = NilToken
    /\ client' = [Transport |-> [Base |-> cfg.orig.Transport,
                                 Source |-> [http |-> cfg.orig]],
                  CheckRedirect |-> cfg.orig.CheckRedirect,
                  Jar |-> cfg.orig.Jar,
                  Timeout |-> cfg.orig.Timeout]
    /\ UNCHANGED <<built, flow, test, wire>>
    /\ UNCHANGED <<now, cfg, mu, reuseMu, issue, pc, requests, reqTok, calls, seen,
                   waiters, fetched, exReq, last, providerCalls, exchangeCalls,
                   ctxDone>>

\* A caller hands a request to the client: oauth2.Transport.RoundTrip is
\* entered and calls Source.Token().
RoundTrip(p) ==
    /\ constructed
    /\ pc[p] = "idle"
    /\ requests < MaxRequests
    /\ requests' = requests + 1
    /\ pc' = [pc EXCEPT ![p] = "lock"]
    /\ waiters' = IF reuseMu # 0 THEN waiters \cup {p} ELSE waiters
    /\ last' = NoLast
    /\ UNCHANGED <<built, flow, test, client, wire>>
    /\ UNCHANGED <<now, cfg, constructed, idToken, mu, reuseT, reuseMu, issue, reqTok,
                   calls, seen, fetched, exReq, providerCalls, exchangeCalls,
                   ctxDone>>

\* variant: the source is not wrapped for reuse, every request asks Token()
NoReuseTokenSourceToken(p) ==
    /\ pc[p] = "lock"
    /\ reuseMu = 0
    /\ reuseMu' = p
    /\ pc' = [pc EXCEPT ![p] = "new"]
    /\ waiters' = waiters \ {p}
    /\ UNCHANGED <<built, flow, test, client, wire>>
    /\ UNCHANGED <<now, cfg, constructed, idToken, mu, reuseT, issue, requests, reqTok,
                   calls, seen, fetched, exReq, last, providerCalls, exchangeCalls,
                   ctxDone>>

\* variant: the cached access token is read without taking the mutex
ReuseTokenSourceTokenUnlocked(p) ==
    /\ pc[p] = "lock"
    /\ IF Valid(reuseT, now)
       THEN /\ reqTok' = [reqTok EXCEPT ![p] = reuseT]
            /\ pc' = [pc EXCEPT ![p] = "send"]
            /\ UNCHANGED reuseMu
       ELSE /\ reuseMu' = p
            /\ pc' = [pc EXCEPT ![p] = "new"]
            /\ UNCHANGED reqTok
    /\ waiters' = waiters \ {p}
    /\ UNCHANGED <<built, flow, test, client, wire>>
    /\ UNCHANGED <<now, cfg, constructed, idToken, mu, reuseT, issue, requests, calls,
                   seen, fetched, exReq, last, providerCalls, exchangeCalls, ctxDone>>

\* reuseTokenSource.Token: takes its mutex; a valid cached token is
\* returned at once, otherwise the wrapped source is asked (mutex kept).
ReuseTokenSourceToken(p) ==
    /\ pc[p] = "lock"
    /\ reuseMu = 0
    /\ IF Valid(reuseT, now)
       THEN /\ reqTok' = [reqTok EXCEPT ![p] = reuseT]
            /\ pc' = [pc EXCEPT ![p] = "send"]
            /\ UNCHANGED reuseMu
       ELSE /\ reuseMu' = p
            /\ pc' = [pc EXCEPT ![p] = "new"]
            /\ UNCHANGED reqTok
    /\ waiters' = waiters \ {p}
    /\ UNCHANGED <<built, flow, test, client, wire>>
    /\ UNCHANGED <<now, cfg, constructed, idToken, mu, reuseT, issue, requests, calls,
                   seen, fetched, exReq, last, providerCalls, exchangeCalls, ctxDone>>

\* variant: the request is built from the ID token cached before the fetch
ExchangeRequestCached(jwt) ==
    [sent |-> TRUE, client_id |-> cfg.clientID, jwt |-> idToken,
     url |-> <<cfg.baseURL, "/api/v2/oauth/token-exchange">>,
     ctx |-> "Background", at |-> now]

\* variant: the request goes to the default API server, not to the base
\* URL the source was constructed with
ExchangeRequestDefaultURL(jwt) ==
    [sent |-> TRUE, client_id |-> cfg.clientID, jwt |-> jwt,
     url |-> <<"https://api.tailscale.com", "/api/v2/oauth/token-exchange">>,
     ctx |-> "Background", at |-> now]

\* the token-exchange request Token() builds and sends with i.http.Do
ExchangeRequest(jwt) ==
    [sent |-> TRUE, client_id |-> cfg.clientID, jwt |-> jwt,
     url |-> <<cfg.baseURL, "/api/v2/oauth/token-exchange">>,
     ctx |-> "Background", at |-> now]

\* variant: the error is recorded but the request goes on to the base transport
FailForward(p, e) ==
    /\ last' = [by |-> p, kind |-> "error", err |-> e, header |-> NoHeader]
    /\ pc' = [pc EXCEPT ![p] = "send"]
    /\ mu' = 0
    /\ reuseMu' = 0
    /\ calls' = <<>>
    /\ seen' = NoSeen
    /\ waiters' = {}
    /\ fetched' = <<>>
    /\ exReq' = NoReq
    /\ ctxDone' = [ctxDone EXCEPT ![p] = FALSE]

\* variant: the error return leaves both mutexes held
FailKeepLock(p, e) ==
    /\ last' = [by |-> p, kind |-> "error", err |-> e, header |-> NoHeader]
    /\ pc' = [pc EXCEPT ![p] = "idle"]
    /\ mu' = mu
    /\ reuseMu' = reuseMu
    /\ calls' = <<>>
    /\ seen' = NoSeen
    /\ waiters' = {}
    /\ fetched' = <<>>
    /\ exReq' = NoReq
    /\ ctxDone' = [ctxDone EXCEPT ![p] = FALSE]

\* The refresh ends with an error: both deferred unlocks run, RoundTrip
\* returns the error and nothing is forwarded.
Fail(p, e) ==
    /\ last' = [by |-> p, kind |-> "error", err |-> e, header |-> NoHeader]
    /\ pc' = [pc EXCEPT ![p] = "idle"]
    /\ mu' = 0
    /\ reuseMu' = 0
    /\ calls' = <<>>
    /\ seen' = NoSeen
    /\ waiters' = {}
    /\ fetched' = <<>>
    /\ exReq' = NoReq
    /\ ctxDone' = [ctxDone EXCEPT ![p] = FALSE]

\* variant: a cached ID token is used without being validated again
needsIDTokenAbsentOnly(tokenStr, t) == tokenStr = <<>>

\* Token()'s test of the cached ID token: absent, or failing validation
needsIDToken(tokenStr, t) == tokenStr = <<>> \/ validateIDToken(tokenStr, t) # NoError

\* variant: Token() runs without taking i.mu
TokenEnterNoLock(p) ==
    /\ pc[p] = "new"
    /\ IF needsIDToken(idToken, now)
       THEN IF cfg.hasIDTokenFunc
            THEN /\ mu' = mu
                 /\ pc' = [pc EXCEPT ![p] = "provider"]
                 /\ seen' = [what |-> IF idToken = <<>> THEN "absent" ELSE "invalid",
                              tok |-> idToken]
                 /\ providerCalls' = providerCalls + 1
                 /\ calls' = Append(calls, "provider")
                 /\ UNCHANGED <<reuseMu, waiters, last, exReq, exchangeCalls, ctxDone,
                                wire>>
            ELSE \* call of a nil func: the goroutine panics, the
                 \* deferred unlocks run while the stack unwinds
                 /\ mu' = 0
                 /\ reuseMu' = 0
                 /\ pc' = [pc EXCEPT ![p] = "panicked"]
                 /\ last' = [by |-> p, kind |-> "panic", err |-> <<>>, header |-> NoHeader]
                 /\ waiters' = {}
                 /\ ctxDone' = [ctxDone EXCEPT ![p] = FALSE]
                 /\ UNCHANGED <<calls, seen, exReq, providerCalls, exchangeCalls, wire>>
       ELSE /\ mu' = mu
            /\ pc' = [pc EXCEPT ![p] = "exchange"]
            /\ seen' = [what |-> "valid", tok |-> idToken]
            /\ exReq' = ExchangeRequest(idToken)
            /\ exchangeCalls' = exchangeCalls + 1
            /\ calls' = Append(calls, "exchange")
            /\ wire' = wire \cup {RoundTripperOf(client.Transport.Source.http.Transport)}
            /\ UNCHANGED <<reuseMu, waiters, last, providerCalls, ctxDone>>
    /\ UNCHANGED <<built, flow, test, client>>
    /\ UNCHANGED <<now, cfg, constructed, idToken, reuseT, issue, requests, reqTok,
                   fetched>>

\* identityFederationTokenSource.Token, from i.mu.Lock() to the first
\* blocking call: idTokenFunc when the cached ID token is absent or fails
\* validation, else the exchange request.
TokenEnter(p) ==
    /\ pc[p] = "new"
    /\ mu = 0
    /\ IF needsIDToken(idToken, now)
       THEN IF cfg.hasIDTokenFunc
            THEN /\ mu' = p
                 /\ pc' = [pc EXCEPT ![p] = "provider"]
                 /\ seen' = [what |-> IF idToken = <<>> THEN "absent" ELSE "invalid",
                              tok |-> idToken]
                 /\ providerCalls' = providerCalls + 1
                 /\ calls' = Append(calls, "provider")
                 /\ UNCHANGED <<reuseMu, waiters, last, exReq, exchangeCalls, ctxDone,
                                wire>>
            ELSE \* call of a nil func: the goroutine panics, the
                 \* deferred unlocks run while the stack unwinds
                 /\ mu' = 0
                 /\ reuseMu' = 0
                 /\ pc' = [pc EXCEPT ![p] = "panicked"]
                 /\ last' = [by |-> p, kind |-> "panic", err |-> <<>>, header |-> NoHeader]
                 /\ waiters' = {}
                 /\ ctxDone' = [ctxDone EXCEPT ![p] = FALSE]
                 /\ UNCHANGED <<calls, seen, exReq, providerCalls, exchangeCalls, wire>>
       ELSE /\ mu' = p
            /\ pc' = [pc EXCEPT ![p] = "exchange"]
            /\ seen' = [what |-> "valid", tok |-> idToken]
            /\ exReq' = ExchangeRequest(idToken)
            /\ exchangeCalls' = exchangeCalls + 1
            /\ calls' = Append(calls, "exchange")
            /\ wire' = wire \cup {RoundTripperOf(client.Transport.Source.http.Transport)}
            /\ UNCHANGED <<reuseMu, waiters, last, providerCalls, ctxDone>>
    /\ UNCHANGED <<built, flow, test, client>>
    /\ UNCHANGED <<now, cfg, constructed, idToken, reuseT, issue, requests, reqTok,
                   fetched>>

\* variant: a provider error is answered by calling the provider again
IDTokenFuncReturnRetry(p, r) ==
    /\ pc[p] = "provider"
    /\ IF r.err
       THEN /\ providerCalls' = providerCalls + 1
            /\ calls' = Append(calls, "provider")
            /\ UNCHANGED <<idToken, exchangeCalls, pc, mu, reuseMu, last, seen,
                           waiters, fetched, exReq, ctxDone, wire>>
       ELSE IF validateIDToken(r.tok, now) # NoError
       THEN /\ Fail(p, <<"fetched ID token is invalid">> \o validateIDToken(r.tok, now))
            /\ UNCHANGED <<idToken, exchangeCalls, providerCalls, wire>>
       ELSE /\ idToken' = r.tok
            /\ fetched' = r.tok
            /\ pc' = [pc EXCEPT ![p] = "exchange"]
            /\ exReq' = ExchangeRequest(r.tok)
            /\ exchangeCalls' = exchangeCalls + 1
            /\ calls' = Append(calls, "exchange")
            /\ wire' = wire \cup {RoundTripperOf(client.Transport.Source.http.Transport)}
            /\ UNCHANGED <<mu, reuseMu, last, seen, waiters, providerCalls, ctxDone>>
    /\ UNCHANGED <<built, flow, test, client>>
    /\ UNCHANGED <<now, cfg, constructed, reuseT, issue, requests, reqTok>>

\* variant: the token idTokenFunc returns is cached without being validated
IDTokenFuncReturnUnchecked(p, r) ==
    /\ pc[p] = "provider"
    /\ IF r.err
       THEN /\ Fail(p, <<"failed to fetch ID token", "generator error">>)
            /\ UNCHANGED <<idToken, exchangeCalls, wire>>
       ELSE /\ idToken' = r.tok
            /\ fetched' = r.tok
            /\ pc' = [pc EXCEPT ![p] = "exchange"]
            /\ exReq' = ExchangeRequest(r.tok)
            /\ exchangeCalls' = exchangeCalls + 1
            /\ calls' = Append(calls, "exchange")
            /\ wire' = wire \cup {RoundTripperOf(client.Transport.Source.http.Transport)}
            /\ UNCHANGED <<mu, reuseMu, last, seen, waiters, ctxDone>>
    /\ UNCHANGED <<built, flow, test, client>>
    /\ UNCHANGED <<now, cfg, constructed, reuseT, issue, requests, reqTok,
                   providerCalls>>

\* variant: the token idTokenFunc returns is cached before it is validated
IDTokenFuncReturnCacheFirst(p, r) ==
    /\ pc[p] = "provider"
    /\ IF r.err
       THEN /\ Fail(p, <<"failed to fetch ID token", "generator error">>)
            /\ UNCHANGED <<idToken, exchangeCalls, wire>>
       ELSE IF validateIDToken(r.tok, now) # NoError
       THEN /\ Fail(p, <<"fetched ID token is invalid">> \o validateIDToken(r.tok, now))
            /\ idToken' = r.tok
            /\ UNCHANGED <<exchangeCalls, wire>>
       ELSE /\ idToken' = r.tok
            /\ fetched' = r.tok
            /\ pc' = [pc EXCEPT ![p] = "exchange"]
            /\ exReq' = ExchangeRequest(r.tok)
            /\ exchangeCalls' = exchangeCalls + 1
            /\ calls' = Append(calls, "exchange")
            /\ wire' = wire \cup {RoundTripperOf(client.Transport.Source.http.Transport)}
            /\ UNCHANGED <<mu, reuseMu, last, seen, waiters, ctxDone>>
    /\ UNCHANGED <<built, flow, test, client>>
    /\ UNCHANGED <<now, cfg, constructed, reuseT, issue, requests, reqTok,
                   providerCalls>>

\* idTokenFunc returns: an error or an invalid token ends the refresh, a
\* valid token is cached and the exchange request is sent.
IDTokenFuncReturn(p, r) ==
    /\ pc[p] = "provider"
    /\ IF r.err
       THEN /\ Fail(p, <<"failed to fetch ID token", "generator error">>)
            /\ UNCHANGED <<idToken, exchangeCalls, wire>>
       ELSE IF validateIDToken(r.tok, now) # NoError
       THEN /\ Fail(p, <<"fetched ID token is invalid">> \o validateIDToken(r.tok, now))
            /\ UNCHANGED <<idToken, exchangeCalls, wire>>
       ELSE /\ idToken' = r.tok
            /\ fetched' = r.tok
            /\ pc' = [pc EXCEPT ![p] = "exchange"]
            /\ exReq' = ExchangeRequest(r.tok)
            /\ exchangeCalls' = exchangeCalls + 1
            /\ calls' = Append(calls, "exchange")
            /\ wire' = wire \cup {RoundTripperOf(client.Transport.Source.http.Transport)}
            /\ UNCHANGED <<mu, reuseMu, last, seen, waiters, ctxDone>>
    /\ UNCHANGED <<built, flow, test, client>>
    /\ UNCHANGED <<now, cfg, constructed, reuseT, issue, requests, reqTok,
                   providerCalls>>

\* the access_token string of the k-th exchange ("" when the field is empty)
AccessTokenOf(r, k) == IF r.empty THEN <<>> ELSE <<"access-token", k>>

\* variant: a 5-minute margin is taken off the declared lifetime
NewTokenMargin(r, k, t) ==
    Token(AccessTokenOf(r, k), r.TokenType, t + r.ExpiresIn - SafetyMargin)

\* time.Duration is a signed 64-bit count of nanoseconds and time.Second
\* is 10^9 of them; the model keeps the shape at a smaller scale: a
\* Duration has DurationBits bits and a second is Second units.
DurationBits == 8
Second == 4
\* the value a signed integer of DurationBits bits holds after arithmetic
\* with the exact result x
Int64(x) == ((x + 2^(DurationBits - 1)) % 2^DurationBits) - 2^(DurationBits - 1)
\* time.Duration(n) * time.Second
Seconds(n) == Int64(n * Second)
\* time.Time.Add, on a time given in whole seconds
Add(t, d) == t + d \div Second

\* the oauth2.Token Token() returns for a decoded response
NewToken(r, k, t) ==
    Token(AccessTokenOf(r, k), r.TokenType, Add(t, Seconds(r.ExpiresIn)))

\* variant: every status other than 200 is taken as a failure
ExchangeReturnOnlyOK(p, r) ==
    /\ pc[p] = "exchange"
    /\ IF r.neterr
       THEN /\ Fail(p, <<"unexpected token exchange request error">>)
            /\ UNCHANGED <<reuseT, issue, reqTok>>
       ELSE IF r.status # 200
       THEN /\ Fail(p, <<"token exchange failed with status", r.status, ReadAll(r)>>)
            /\ UNCHANGED <<reuseT, issue, reqTok>>
       ELSE IF ~r.decodable
       THEN /\ Fail(p, <<"failed to decode token exchange response">>)
            /\ UNCHANGED <<reuseT, issue, reqTok>>
       ELSE /\ reuseT' = NewToken(r, exchangeCalls, now)
            /\ issue' = [at |-> now, ExpiresIn |-> r.ExpiresIn]
            /\ reqTok' = [reqTok EXCEPT ![p] = reuseT']
            /\ pc' = [pc EXCEPT ![p] = "send"]
            /\ mu' = 0
            /\ reuseMu' = 0
            /\ calls' = <<>>
            /\ seen' = NoSeen
            /\ fetched' = <<>>
            /\ exReq' = NoReq
            /\ UNCHANGED <<last, waiters, ctxDone>>
    /\ UNCHANGED <<built, flow, test, client, wire>>
    /\ UNCHANGED <<now, cfg, constructed, idToken, requests, providerCalls,
                   exchangeCalls>>

\* variant: a failed exchange discards the cached ID token
ExchangeReturnDropsIDToken(p, r) ==
    /\ pc[p] = "exchange"
    /\ IF r.neterr
       THEN /\ Fail(p, <<"unexpected token exchange request error">>)
            /\ idToken' = <<>>
            /\ UNCHANGED <<reuseT, issue, reqTok>>
       ELSE IF r.status >= StatusBadRequest
       THEN /\ Fail(p, <<"token exchange failed with status", r.status, ReadAll(r)>>)
            /\ idToken' = <<>>
            /\ UNCHANGED <<reuseT, issue, reqTok>>
       ELSE IF ~r.decodable
       THEN /\ Fail(p, <<"failed to decode token exchange response">>)
            /\ idToken' = <<>>
            /\ UNCHANGED <<reuseT, issue, reqTok>>
       ELSE /\ reuseT' = NewToken(r, exchangeCalls, now)
            /\ issue' = [at |-> now, ExpiresIn |-> r.ExpiresIn]
            /\ reqTok' = [reqTok EXCEPT ![p] = reuseT']
            /\ pc' = [pc EXCEPT ![p] = "send"]
            /\ mu' = 0
            /\ reuseMu' = 0
            /\ calls' = <<>>
            /\ seen' = NoSeen
            /\ fetched' = <<>>
            /\ exReq' = NoReq
            /\ UNCHANGED <<last, waiters, ctxDone, idToken>>
    /\ UNCHANGED <<built, flow, test, client, wire>>
    /\ UNCHANGED <<now, cfg, constructed, requests, providerCalls, exchangeCalls>>

\* variant: the return with the new token leaves both mutexes held
ExchangeReturnHoldsMutex(p, r) ==
    /\ pc[p] = "exchange"
    /\ IF r.neterr
       THEN /\ Fail(p, <<"unexpected token exchange request error">>)
            /\ UNCHANGED <<reuseT, issue, reqTok>>
       ELSE IF r.status >= StatusBadRequest
       THEN /\ Fail(p, <<"token exchange failed with status", r.status, ReadAll(r)>>)
            /\ UNCHANGED <<reuseT, issue, reqTok>>
       ELSE IF ~r.decodable
       THEN /\ Fail(p, <<"failed to decode token exchange response">>)
            /\ UNCHANGED <<reuseT, issue, reqTok>>
       ELSE /\ reuseT' = NewToken(r, exchangeCalls, now)
            /\ issue' = [at |-> now, ExpiresIn |-> r.ExpiresIn]
            /\ reqTok' = [reqTok EXCEPT ![p] = reuseT']
            /\ pc' = [pc EXCEPT ![p] = "send"]
            /\ calls' = <<>>
            /\ seen' = NoSeen
            /\ fetched' = <<>>
            /\ exReq' = NoReq
            /\ UNCHANGED <<last, waiters, ctxDone, mu, reuseMu>>
    /\ UNCHANGED <<built, flow, test, client, wire>>
    /\ UNCHANGED <<now, cfg, constructed, idToken, requests, providerCalls,
                   exchangeCalls>>

\* i.http.Do returns: a transport error, a status >= 400 or an undecodable
\* body ends the refresh; otherwise Token() returns the new token, which
\* reuseTokenSource stores and hands to RoundTrip.
ExchangeReturn(p, r) ==
    /\ pc[p] = "exchange"
    /\ IF r.neterr
       THEN /\ Fail(p, <<"unexpected token exchange request error">>)
            /\ UNCHANGED <<reuseT, issue, reqTok>>
       ELSE IF r.status >= StatusBadRequest
       THEN /\ Fail(p, <<"token exchange failed with status", r.status, ReadAll(r)>>)
            /\ UNCHANGED <<reuseT, issue, reqTok>>
       ELSE IF ~r.decodable
       THEN /\ Fail(p, <<"failed to decode token exchange response">>)
            /\ UNCHANGED <<reuseT, issue, reqTok>>
       ELSE /\ reuseT' = NewToken(r, exchangeCalls, now)
            /\ issue' = [at |-> now, ExpiresIn |-> r.ExpiresIn]
            /\ reqTok' = [reqTok EXCEPT ![p] = reuseT']
            /\ pc' = [pc EXCEPT ![p] = "send"]
            /\ mu' = 0
            /\ reuseMu' = 0
            /\ calls' = <<>>
            /\ seen' = NoSeen
            /\ fetched' = <<>>
            /\ exReq' = NoReq
            /\ UNCHANGED <<last, waiters, ctxDone>>
    /\ UNCHANGED <<built, flow, test, client, wire>>
    /\ UNCHANGED <<now, cfg, constructed, idToken, requests, providerCalls,
                   exchangeCalls>>

\* oauth2.Transport.RoundTrip after Source.Token(): the request is cloned,
\* the Authorization header set from the token and the clone handed to
\* Base, which answers a request whose context is done with that error.
Forward(p) ==
    /\ pc[p] = "send"
    /\ last' = IF ctxDone[p]
               THEN [by |-> p, kind |-> "error", err |-> <<"context canceled">>,
                     header |-> SetAuthHeader(reqTok[p])]
               ELSE [by |-> p, kind |-> "response", err |-> <<>>,
                     header |-> SetAuthHeader(reqTok[p])]
    /\ reqTok' = [reqTok EXCEPT ![p] = NilToken]
    /\ pc' = [pc EXCEPT ![p] = "idle"]
    /\ ctxDone' = [ctxDone EXCEPT ![p] = FALSE]
    /\ wire' = wire \cup {RoundTripperOf(client.Transport.Base)}
    /\ UNCHANGED <<built, flow, test, client>>
    /\ UNCHANGED <<now, cfg, constructed, idToken, mu, reuseT, reuseMu, issue, requests,
                   calls, seen, waiters, fetched, exReq, providerCalls, exchangeCalls>>

Next ==
    \/ Tick
    \/ HTTPClient
    \/ \E p \in Procs : RoundTrip(p)
    \/ \E p \in Procs : ReuseTokenSourceToken(p)
    \/ \E p \in Procs : TokenEnter(p)
    \/ \E p \in Procs, r \in IDTokenResults : IDTokenFuncReturn(p, r)
    \/ \E p \in Procs, r \in ExchangeResults : ExchangeReturn(p, r)
    \/ \E p \in Procs : Forward(p)

Spec == Init /\ [][Next]_vars

\* The same client when every call returns: idTokenFunc and the exchange
\* round trip return, a caller that finds i.mu free takes it, and
\* sync.Mutex hands the reuse mutex to a caller that keeps waiting for it.
Fairness ==
    \A p \in Procs :
        /\ SF_vars(ReuseTokenSourceToken(p))
        /\ WF_vars(TokenEnter(p))
        /\ WF_vars(\E r \in IDTokenResults : IDTokenFuncReturn(p, r))
        /\ WF_vars(\E r \in ExchangeResults : ExchangeReturn(p, r))

SpecLive == Init /\ [][Next]_vars /\ Fairness

\* The exchange endpoint may also declare a lifetime that is not positive:
\* "expires_in" 0 (or absent, which decodes to 0), a negative number, or a
\* negative number whose count of Duration units does not fit a Duration.
MinSeconds == -(2^(DurationBits - 1) \div Second)
NonPositiveExpiresIn == {0, -1, MinSeconds - 1}
LifetimeResults ==
    {[neterr |-> FALSE, status |-> 200, decodable |-> TRUE, empty |-> FALSE,
      TokenType |-> "Bearer", ExpiresIn |-> n] : n \in NonPositiveExpiresIn}

\* the same client against such an endpoint
NextLifetime ==
    \/ Next
    \/ \E p \in Procs, r \in LifetimeResults : ExchangeReturn(p, r)

SpecLifetime == Init /\ [][NextLifetime]_vars

\* The context of a request is cancelled, or its deadline passes, while the
\* refresh that request triggered is running.  Nothing in Transport.RoundTrip,
\* reuseTokenSource.Token or Token() looks at the request's context.
Cancel(p) ==
    /\ pc[p] \in {"new", "provider", "exchange"}
    /\ ~ctxDone[p]
    /\ ctxDone' = [ctxDone EXCEPT ![p] = TRUE]
    /\ UNCHANGED <<built, flow, test, client, wire>>
    /\ UNCHANGED <<now, cfg, constructed, idToken, mu, reuseT, reuseMu, issue, pc,
                   requests, reqTok, calls, seen, waiters, fetched, exReq, last,
                   providerCalls, exchangeCalls>>

\* the same client when the contexts of its requests may be cancelled
NextCtx ==
    \/ Next
    \/ \E p \in Procs : Cancel(p)

SpecCtx == Init /\ [][NextCtx]_vars

\* ------------------------------------------- validateIDToken called directly
\* the segments tokens are built from: empty, a JSON object without exp
\* (as a header is), base64url that is not JSON (as a signature is), a run
\* that is not base64url, and JSON objects with "exp":0 or a later exp
Segments ==
    {<<>>, <<Hdr>>, <<Sig>>, <<Atom(FALSE, FALSE, FALSE, 0)>>,
     <<Atom(TRUE, TRUE, TRUE, 0)>>} \cup
    {<<Atom(TRUE, TRUE, TRUE, e)>> : e \in IdExps}

\* fmt.Sprintf("%s.%s.%s", ...): segments joined by '.'
RECURSIVE Join(_)
Join(parts) ==
    IF Len(parts) = 1 THEN parts[1]
    ELSE parts[1] \o <<Dot>> \o Join(Tail(parts))

\* the token strings the function is called with
TestTokens == {Join(ps) : ps \in UNION {[1..k -> Segments] : k \in 1..MaxParts}}

TestInit ==
    /\ now \in 0..MaxTime
    /\ test \in {[token |-> s, called |-> FALSE, err |-> NoError] : s \in TestTokens}
    /\ cfg = [clientID |-> "client-id", hasIDTokenFunc |-> TRUE, baseURL |-> "https://api",
              orig |-> CustomClient]
    /\ constructed = FALSE
    /\ idToken = <<>>
    /\ mu = 0
    /\ reuseT = NilToken
    /\ reuseMu = 0
    /\ issue = [at |-> 0, ExpiresIn |-> 0]
    /\ pc = [p \in Procs |-> "idle"]
    /\ requests = 0
    /\ reqTok = [p \in Procs |-> NilToken]
    /\ calls = <<>>
    /\ seen = NoSeen
    /\ waiters = {}
    /\ fetched = <<>>
    /\ exReq = NoReq
    /\ last = NoLast
    /\ providerCalls = 0
    /\ exchangeCalls = 0
    /\ ctxDone = [p \in Procs |-> FALSE]
    /\ client = NoClient
    /\ wire = {}
    /\ built = NoBuilt
    /\ flow = NoFlow

\* err := validateIDToken(token)
TestValidateIDToken ==
    /\ ~test.called
    /\ test' = [test EXCEPT !.called = TRUE, !.err = validateIDToken(test.token, now)]
    /\ UNCHANGED <<now, cfg, constructed, idToken, mu, reuseT, reuseMu, issue, pc,
                   requests, reqTok, calls, seen, waiters, fetched, exReq, last,
                   providerCalls, exchangeCalls, ctxDone, client, wire, built,
                   flow>>

TestNext == TestValidateIDToken

TestSpec == TestInit /\ [][TestNext]_vars

\* ------------------------------------------------------- Client.buildRequest
\* base64.StdEncoding.EncodeToString
EncodeToString(bytes) == [encoding |-> "base64.StdEncoding", of |-> bytes]
\* net/http basicAuth: username ":" password, base64-encoded
basicAuth(username, password) == EncodeToString(<<username, ":", password>>)
\* http.Request.SetBasicAuth: the Authorization header value
SetBasicAuth(username, password) == <<"Basic", basicAuth(username, password)>>

\* the Client values, and the arguments, buildRequest is called with
APIKeys == {"", "tskey-api-k1"}
UserAgents == {"", "tailscale-client-go"}
Methods == {"GET", "bad method"}
Bodies == {"nil", "string", "bytes", "json", "unmarshalable"}
ContentTypes == {"application/json", "application/hujson"}
OptHeaders ==
    {EmptyHeader,
     [EmptyHeader EXCEPT !["If-Match"] = <<"etag">>],
     [EmptyHeader EXCEPT !["Authorization"] = <<"Bearer", "callers-token">>]}

\* variant: the headers of the options are applied last
RequestHeaderOptsLast(c, opts) ==
    LET h1 == IF c.UserAgent # ""
              THEN [EmptyHeader EXCEPT !["User-Agent"] = <<c.UserAgent>>]
              ELSE EmptyHeader
        h2 == IF opts.body = "nil"
              THEN [h1 EXCEPT !["Accept"] = <<opts.contentType>>]
              ELSE [h1 EXCEPT !["Content-Type"] = <<opts.contentType>>]
        h3 == IF c.APIKey # ""
              THEN [h2 EXCEPT !["Authorization"] = SetBasicAuth(c.APIKey, "")]
              ELSE h2
    IN  [n \in HeaderNames |-> IF opts.headers[n] # <<>> THEN opts.headers[n] ELSE h3[n]]

\* the header buildRequest gives the request: User-Agent, the headers of
\* the options, Accept or Content-Type, and basic auth when APIKey is set
RequestHeader(c, opts) ==
    LET h1 == IF c.UserAgent # ""
              THEN [EmptyHeader EXCEPT !["User-Agent"] = <<c.UserAgent>>]
              ELSE EmptyHeader
        h2 == [n \in HeaderNames |->
                 IF opts.headers[n] # <<>> THEN opts.headers[n] ELSE h1[n]]
        h3 == IF opts.body = "nil"
              THEN [h2 EXCEPT !["Accept"] = <<opts.contentType>>]
              ELSE [h2 EXCEPT !["Content-Type"] = <<opts.contentType>>]
    IN  IF c.APIKey # ""
        THEN [h3 EXCEPT !["Authorization"] = SetBasicAuth(c.APIKey, "")]
        ELSE h3

BuildInit ==
    /\ built \in {[c |-> [APIKey |-> k, UserAgent |-> u], method |-> m,
                   opts |-> [headers |-> h, body |-> b, contentType |-> ct],
                   called |-> FALSE, err |-> NoError, Header |-> EmptyHeader,
                   sent |-> <<>>] :
                  k \in APIKeys, u \in UserAgents, m \in Methods, h \in OptHeaders,
                  b \in Bodies, ct \in ContentTypes}
    /\ now = 0
    /\ cfg = [clientID |-> "client-id", hasIDTokenFunc |-> TRUE, baseURL |-> "https://api",
              orig |-> CustomClient]
    /\ constructed = FALSE
    /\ idToken = <<>>
    /\ mu = 0
    /\ reuseT = NilToken
    /\ reuseMu = 0
    /\ issue = [at |-> 0, ExpiresIn |-> 0]
    /\ pc = [p \in Procs |-> "idle"]
    /\ requests = 0
    /\ reqTok = [p \in Procs |-> NilToken]
    /\ calls = <<>>
    /\ seen = NoSeen
    /\ waiters = {}
    /\ fetched = <<>>
    /\ exReq = NoReq
    /\ last = NoLast
    /\ providerCalls = 0
    /\ exchangeCalls = 0
    /\ ctxDone = [p \in Procs |-> FALSE]
    /\ test = NoTest
    /\ client = NoClient
    /\ wire = {}
    /\ flow = NoFlow

\* Client.buildRequest: json.Marshal of the body and
\* http.NewRequestWithContext may fail; else the header is filled in.
buildRequest ==
    /\ ~built.called
    /\ built' = IF built.opts.body = "unmarshalable"
                THEN [built EXCEPT !.called = TRUE, !.err = <<"json: unsupported type">>]
                ELSE IF built.method # "GET"
                THEN [built EXCEPT !.called = TRUE, !.err = <<"net/http: invalid method">>]
                ELSE [built EXCEPT !.called = TRUE,
                                   !.Header = RequestHeader(built.c, built.opts)]
    /\ UNCHANGED <<now, cfg, constructed, idToken, mu, reuseT, reuseMu, issue, pc,
                   requests, reqTok, calls, seen, waiters, fetched, exReq, last,
                   providerCalls, exchangeCalls, ctxDone, test, client, wire, flow>>

\* Client.doWithResponseHeaders: c.HTTP.Do(req) with the http.Client that
\* Client.init sets when HTTP is nil; the request goes out with its header.
do ==
    /\ built.called /\ built.err = NoError /\ built.sent = <<>>
    /\ built' = [built EXCEPT !.sent = <<built.Header>>]
    /\ UNCHANGED <<now, cfg, constructed, idToken, mu, reuseT, reuseMu, issue, pc,
                   requests, reqTok, calls, seen, waiters, fetched, exReq, last,
                   providerCalls, exchangeCalls, ctxDone, test, client, wire, flow>>

BuildNext == buildRequest \/ do

BuildSpec == BuildInit /\ [][BuildNext]_vars

\* ------------------------------------------- LoggingResource.GetNetworkFlowLogs
\* http.StatusOK
StatusOK == 200
\* a log entry of the response stream: its NodeID, and whether
\* decoder.Decode(&log) can decode it
NodeIDs == {"node1", "node2"}
LogEntries == [NodeID : NodeIDs, decodable : BOOLEAN]
EntrySeqs == UNION {[1..k -> LogEntries] : k \in 0..MaxEntries}
\* what lr.HTTP.Do may return: an error, a status other than 200, a body
\* that does not start with {"logs":[ , or the entries followed by the
\* closing delimiters or by something else
FlowResponses ==
    {[neterr |-> TRUE, status |-> 0, prelude |-> "", entries |-> <<>>, tail |-> ""],
     [neterr |-> FALSE, status |-> 500, prelude |-> "", entries |-> <<>>, tail |-> ""],
     [neterr |-> FALSE, status |-> StatusOK, prelude |-> "bad", entries |-> <<>>,
      tail |-> ""]} \cup
    {[neterr |-> FALSE, status |-> StatusOK, prelude |-> "ok", entries |-> es,
      tail |-> tl] : es \in EntrySeqs, tl \in {"ok", "bad"}}

FlowInit ==
    /\ flow \in {[resp |-> r, pc |-> "start", pos |-> 0, handled |-> <<>>,
                  ctxErr |-> FALSE, err |-> NoError] : r \in FlowResponses}
    /\ built = NoBuilt
    /\ now = 0
    /\ cfg = [clientID |-> "client-id", hasIDTokenFunc |-> TRUE, baseURL |-> "https://api",
              orig |-> CustomClient]
    /\ constructed = FALSE
    /\ idToken = <<>>
    /\ mu = 0
    /\ reuseT = NilToken
    /\ reuseMu = 0
    /\ issue = [at |-> 0, ExpiresIn |-> 0]
    /\ pc = [p \in Procs |-> "idle"]
    /\ requests = 0
    /\ reqTok = [p \in Procs |-> NilToken]
    /\ calls = <<>>
    /\ seen = NoSeen
    /\ waiters = {}
    /\ fetched = <<>>
    /\ exReq = NoReq
    /\ last = NoLast
    /\ providerCalls = 0
    /\ exchangeCalls = 0
    /\ ctxDone = [p \in Procs |-> FALSE]
    /\ test = NoTest
    /\ client = NoClient
    /\ wire = {}

\* the call has returned err
FlowReturn(err) == [flow EXCEPT !.pc = "done", !.err = err]

\* streamNetworkFlowLogs up to the loop: lr.HTTP.Do(req), the status test
\* and the delimiters and field name before the first entry
streamNetworkFlowLogs ==
    /\ flow.pc = "start"
    /\ flow' = IF flow.ctxErr THEN FlowReturn(<<"context canceled">>)
               ELSE IF flow.resp.neterr THEN FlowReturn(<<"connection refused">>)
               ELSE IF flow.resp.status # StatusOK
               THEN FlowReturn(<<"HTTP", flow.resp.status>>)
               ELSE IF flow.resp.prelude # "ok"
               THEN FlowReturn(<<"expected 'logs' field">>)
               ELSE [flow EXCEPT !.pc = "loop"]
    /\ UNCHANGED <<now, cfg, constructed, idToken, mu, reuseT, reuseMu, issue, pc,
                   requests, reqTok, calls, seen, waiters, fetched, exReq, last,
                   providerCalls, exchangeCalls, ctxDone, test, client, wire, built>>

\* variant: a handler error is kept and returned after the last entry
DecodeAndHandleContinue(herr, buffered) ==
    /\ flow.pc = "loop"
    /\ flow' =
         IF flow.ctxErr /\ ~buffered
         THEN FlowReturn(<<"failed to read logs array end", "context canceled">>)
         ELSE IF flow.pos < Len(flow.resp.entries)
         THEN IF flow.ctxErr THEN FlowReturn(<<"context canceled">>)
              ELSE IF ~flow.resp.entries[flow.pos + 1].decodable
              THEN FlowReturn(<<"failed to decode log entry">>)
              ELSE [flow EXCEPT !.pos = flow.pos + 1,
                                !.handled = Append(flow.handled,
                                                   flow.resp.entries[flow.pos + 1]),
                                !.err = IF herr /\ flow.err = NoError
                                        THEN <<"handler error", "test handler error">>
                                        ELSE flow.err]
         ELSE IF flow.resp.tail # "ok"
         THEN FlowReturn(<<"failed to read logs array end">>)
         ELSE FlowReturn(flow.err)
    /\ UNCHANGED <<now, cfg, constructed, idToken, mu, reuseT, reuseMu, issue, pc,
                   requests, reqTok, calls, seen, waiters, fetched, exReq, last,
                   providerCalls, exchangeCalls, ctxDone, test, client, wire, built>>

\* One turn of the loop "for decoder.More()": the context's error is
\* tested, the next entry decoded and handed to the handler, which returns
\* an error (herr) or nil; after the last entry the closing delimiters are
\* read.  Once the context is done the body either still yields the next
\* entry from the decoder's buffer (buffered) or fails to read.
DecodeAndHandle(herr, buffered) ==
    /\ flow.pc = "loop"
    /\ flow' =
         IF flow.ctxErr /\ ~buffered
         THEN FlowReturn(<<"failed to read logs array end", "context canceled">>)
         ELSE IF flow.pos < Len(flow.resp.entries)
         THEN IF flow.ctxErr THEN FlowReturn(<<"context canceled">>)
              ELSE IF ~flow.resp.entries[flow.pos + 1].decodable
              THEN FlowReturn(<<"failed to decode log entry">>)
              ELSE IF herr
              THEN [flow EXCEPT !.pos = flow.pos + 1,
                                !.handled = Append(flow.handled,
                                                   flow.resp.entries[flow.pos + 1]),
                                !.pc = "done",
                                !.err = <<"handler error", "test handler error">>]
              ELSE [flow EXCEPT !.pos = flow.pos + 1,
                                !.handled = Append(flow.handled,
                                                   flow.resp.entries[flow.pos + 1])]
         ELSE IF flow.resp.tail # "ok"
         THEN FlowReturn(<<"failed to read logs array end">>)
         ELSE FlowReturn(NoError)
    /\ UNCHANGED <<now, cfg, constructed, idToken, mu, reuseT, reuseMu, issue, pc,
                   requests, reqTok, calls, seen, waiters, fetched, exReq, last,
                   providerCalls, exchangeCalls, ctxDone, test, client, wire, built>>

\* the caller cancels the request's context, or its deadline passes
FlowCancel ==
    /\ flow.pc \in {"start", "loop"}
    /\ ~flow.ctxErr
    /\ flow' = [flow EXCEPT !.ctxErr = TRUE]
    /\ UNCHANGED <<now, cfg, constructed, idToken, mu, reuseT, reuseMu, issue, pc,
                   requests, reqTok, calls, seen, waiters, fetched, exReq, last,
                   providerCalls, exchangeCalls, ctxDone, test, client, wire, built>>

FlowNext ==
    \/ streamNetworkFlowLogs
    \/ \E herr \in BOOLEAN, buffered \in BOOLEAN : DecodeAndHandle(herr, buffered)
    \/ FlowCancel

FlowSpec == FlowInit /\ [][FlowNext]_vars

TypeOK ==
    /\ now \in 0..MaxTime
    /\ mu \in 0..NumProcs
    /\ reuseMu \in 0..NumProcs
    /\ \A p \in Procs : pc[p] \in {"idle", "lock", "new", "provider", "exchange", "send", "panicked"}

\* ----------------------------------------------------------------- claims
Range(f) == {f[i] : i \in DOMAIN f}

\* some caller's RoundTrip found the cached token valid under the mutex
CacheHit(p) == ReuseTokenSourceToken(p) /\ pc'[p] = "send"
\* some caller's RoundTrip found it invalid and went on to Token()
CacheMiss(p) == ReuseTokenSourceToken(p) /\ pc'[p] = "new"

\* C1 as stated: a request refreshes exactly when no access token is cached
\* or the stored expiry of the cached one has passed.
C1_RefreshIffStoredExpiryPassed ==
    [][\A p \in Procs : ReuseTokenSourceToken(p) =>
          (CacheMiss(p) <=> (reuseT.nil \/ After(now, reuseT.Expiry)))]_vars

\* C1 amended: a request refreshes exactly when no access token is cached,
\* the cached access token is the empty string, or the time is later than
\* the stored expiry minus the 10-second expiry delta of oauth2; otherwise
\* it reuses the cached token and makes no provider and no exchange call.
\* Provider and exchange calls are made only by the caller that holds the
\* reuse mutex, which it keeps only after finding the token invalid.
C1_RefreshIffInvalid ==
    [][/\ \A p \in Procs : ReuseTokenSourceToken(p) =>
            /\ CacheMiss(p) <=> \/ reuseT.nil
                                \/ reuseT.AccessToken = <<>>
                                \/ now > issue.at + issue.ExpiresIn - defaultExpiryDelta
            /\ CacheHit(p) => /\ reqTok'[p] = reuseT
                              /\ reuseT' = reuseT
                              /\ providerCalls' = providerCalls
                              /\ exchangeCalls' = exchangeCalls
       /\ (providerCalls' # providerCalls \/ exchangeCalls' # exchangeCalls) =>
            \E p \in Procs : reuseMu = p /\ pc[p] \in {"new", "provider"}]_vars

\* C1 witness: two requests have obtained a token and only one exchange was made
C1_Witness ==
    /\ requests = 2 /\ exchangeCalls = 1 /\ providerCalls = 1
    /\ last.kind = "response"
    /\ \E p \in Procs : pc[p] = "send" /\ reqTok[p] = reuseT /\ now > issue.at

C3_WaitersReusePositiveLifetime ==
    [][\A p \in Procs :
         (/\ ReuseTokenSourceToken(p)
          /\ p \in waiters
          /\ ~reuseT.nil
          /\ issue.ExpiresIn > 0
          /\ ~After(now, reuseT.Expiry))
         => (CacheHit(p) /\ reqTok'[p] = reuseT /\ exchangeCalls' = exchangeCalls)]_vars

\* C3 amended: a caller that arrived during a refresh waits for the mutex
\* and then reuses the refreshed token without an exchange of its own,
\* given the refresh succeeded with a non-empty access token and the time
\* at which the caller gets the mutex is not later than the token's expiry
\* minus the 10-second expiry delta of oauth2.
C3_WaitersReuse ==
    [][\A p \in Procs :
         /\ (RoundTrip(p) /\ reuseMu # 0) => (pc'[p] = "lock" /\ reuseMu' = reuseMu)
         /\ (pc[p] = "lock" /\ reuseMu # 0) => pc'[p] = "lock"
         /\ (/\ ReuseTokenSourceToken(p)
             /\ p \in waiters
             /\ ~reuseT.nil
             /\ reuseT.AccessToken # <<>>
             /\ now <= issue.at + issue.ExpiresIn - defaultExpiryDelta)
            => /\ CacheHit(p)
               /\ reqTok'[p] = reuseT
               /\ providerCalls' = providerCalls
               /\ exchangeCalls' = exchangeCalls]_vars

\* C3 witness: a caller that waited during the only exchange holds its token
C3_Witness ==
    /\ exchangeCalls = 1 /\ requests = 2 /\ waiters = {}
    /\ last.kind = "none"
    /\ \A p \in Procs : pc[p] = "send" /\ reqTok[p] = reuseT

\* C4: a refresh that finds the cached ID token still valid does not call
\* the provider and sends exactly one exchange request, carrying the
\* cached ID token; the refresh makes no further call until it ends.
C4_ValidIDTokenReused ==
    /\ [][\A p \in Procs :
            (TokenEnter(p) /\ idToken # <<>> /\ ~After(now, ExpOf(idToken)))
            => /\ pc'[p] = "exchange"
               /\ providerCalls' = providerCalls
               /\ exchangeCalls' = exchangeCalls + 1
               /\ exReq'.jwt = idToken
               /\ idToken' = idToken]_vars
    /\ [][\A p \in Procs :
            (pc[p] = "exchange" /\ seen.what = "valid")
            => (providerCalls' = providerCalls /\ exchangeCalls' = exchangeCalls)]_vars
    /\ [](seen.what = "valid" => calls = <<"exchange">>)

\* C4 witness: a second access-token refresh under way with one provider call
C4_Witness ==
    /\ seen.what = "valid" /\ providerCalls = 1 /\ exchangeCalls = 2
    /\ \E p \in Procs : pc[p] = "exchange"

\* C5: a refresh that finds the cached ID token expired calls the provider
\* once and only then sends one exchange request, which carries the token
\* the provider just returned and not the expired one.
C5_ExpiredIDTokenRefetched ==
    /\ [][\A p \in Procs :
            (TokenEnter(p) /\ idToken # <<>> /\ After(now, ExpOf(idToken))
               /\ cfg.hasIDTokenFunc)
            => /\ pc'[p] = "provider"
               /\ providerCalls' = providerCalls + 1
               /\ exchangeCalls' = exchangeCalls]_vars
    /\ [](seen.what = "invalid" =>
            /\ calls \in {<<"provider">>, <<"provider", "exchange">>}
            /\ exReq.sent => /\ calls = <<"provider", "exchange">>
                             /\ exReq.jwt = fetched
                             /\ exReq.jwt # seen.tok
                             /\ ~After(exReq.at, ExpOf(exReq.jwt)))

\* C5 witness: the exchange of such a refresh is in flight
C5_Witness ==
    /\ seen.what = "invalid" /\ exReq.sent
    /\ providerCalls = 2 /\ exchangeCalls = 2
    /\ \E p \in Procs : pc[p] = "exchange"

\* C6: every exchange request carries the cached ID token, and that token
\* passed validation at the time the request was sent, inside the refresh
\* that sent it; in particular it was not past its exp, and a cached token
\* found expired has been replaced before the request.
C6_NoExpiredIDTokenExchanged ==
    exReq.sent =>
        /\ exReq.jwt = idToken
        /\ validateIDToken(exReq.jwt, exReq.at) = NoError
        /\ ~After(exReq.at, ExpOf(exReq.jwt))
        /\ mu # 0 /\ reuseMu = mu /\ pc[mu] = "exchange"
        /\ seen.what = "invalid" => exReq.jwt # seen.tok

\* C6 witness: an exchange in flight carrying a token fetched in the second
\* of its expiry
C6_Witness ==
    /\ exReq.sent /\ exReq.at = ExpOf(exReq.jwt)
    /\ now > exReq.at

\* C7 as stated: the stored expiry is t + n minus the 5-minute margin.
C7_ExpiryMinusMargin ==
    ~reuseT.nil => reuseT.Expiry = issue.at + issue.ExpiresIn - SafetyMargin

\* C7 amended: after a successful exchange at time t whose response
\* declares expires_in = n, the stored expiry is t + n; nothing is
\* subtracted from the server-declared lifetime.
C7_ExpiryIsNowPlusExpiresIn ==
    ~reuseT.nil => /\ reuseT.Expiry = issue.at + issue.ExpiresIn
                   /\ issue.at <= now
                   /\ issue.ExpiresIn \in ExpiresInChoices

\* C7 witness: a token with an 11-second lifetime is cached and served from
\* the cache later than a 5-minute margin would allow
C7_Witness ==
    /\ ~reuseT.nil /\ issue.ExpiresIn = 11 /\ now = issue.at + 1
    /\ \E p \in Procs : pc[p] = "send" /\ reqTok[p] = reuseT /\ requests > exchangeCalls

C9_MisconfigurationRejected ==
    /\ constructed => (cfg.clientID # "" /\ cfg.hasIDTokenFunc)
    /\ \A p \in Procs : pc[p] # "panicked"
    /\ exReq.sent => exReq.client_id # ""

\* C10: a refresh step that fails (provider error, fetched token failing
\* validation, exchange error) ends the request: the caller gets the
\* wrapped error, the request never reaches the base transport and the
\* cached access token is untouched.
C10_FailedRefreshAborts ==
    [][\A p \in Procs :
         /\ \A r \in IDTokenResults :
              (IDTokenFuncReturn(p, r) /\ (r.err \/ validateIDToken(r.tok, now) # NoError))
              => /\ pc'[p] = "idle"
                 /\ last' = [by |-> p, kind |-> "error", header |-> NoHeader,
                             err |-> IF r.err
                                     THEN <<"failed to fetch ID token", "generator error">>
                                     ELSE <<"fetched ID token is invalid">>
                                          \o validateIDToken(r.tok, now)]
                 /\ exchangeCalls' = exchangeCalls
                 /\ reuseT' = reuseT
         /\ \A r \in ExchangeResults :
              (ExchangeReturn(p, r)
                 /\ (r.neterr \/ r.status >= StatusBadRequest \/ ~r.decodable))
              => /\ pc'[p] = "idle"
                 /\ last'.by = p /\ last'.kind = "error" /\ last'.header = NoHeader
                 /\ last'.err[1] \in {"unexpected token exchange request error",
                                      "token exchange failed with status",
                                      "failed to decode token exchange response"}
                 /\ reuseT' = reuseT
         /\ (pc[p] \in {"provider", "exchange"} /\ pc'[p] = "idle")
              => (last'.kind = "error" /\ last'.header = NoHeader)]_vars

\* C10 witness: a request ended with the wrapped expired-token error
C10_Witness ==
    /\ last.kind = "error" /\ last.header = NoHeader
    /\ last.err = <<"fetched ID token is invalid", "ID token has expired">>
    /\ pc[last.by] = "idle"

\* a refresh is between taking the reuse mutex and its return
Refreshing(p) == pc[p] \in {"new", "provider", "exchange"}
\* the refresh of p returns an error in this step
RefreshFails(p) == pc[p] \in {"provider", "exchange"} /\ pc'[p] = "idle"

\* C11: a failed refresh aborts only the request that triggered it: the
\* step that returns the error releases both mutexes and leaves the cached
\* ID token and access token as they were, so whenever no refresh is
\* running the mutexes are free and a waiting request can take them; the
\* refresh of a later request goes on to the exchange when the provider
\* returns a valid ID token and hands the new access token to the request
\* when the exchange succeeds, whatever failed before.
C11_FailedRefreshLeavesClientUsable ==
    /\ [][\A p \in Procs : RefreshFails(p) =>
            /\ mu' = 0 /\ reuseMu' = 0
            /\ idToken' = idToken /\ reuseT' = reuseT
            /\ \A q \in Procs \ {p} : pc'[q] = pc[q]]_vars
    /\ []((\A p \in Procs : ~Refreshing(p)) =>
            /\ mu = 0 /\ reuseMu = 0
            /\ \A p \in Procs : pc[p] = "lock" => ENABLED ReuseTokenSourceToken(p))
    /\ [][\A p \in Procs :
            /\ \A r \in IDTokenResults :
                 (IDTokenFuncReturn(p, r) /\ ~r.err /\ validateIDToken(r.tok, now) = NoError)
                 => (pc'[p] = "exchange" /\ exReq'.jwt = r.tok /\ idToken' = r.tok)
            /\ \A r \in ExchangeResults :
                 (ExchangeReturn(p, r) /\ ~r.neterr /\ r.status < StatusBadRequest
                    /\ r.decodable)
                 => (pc'[p] = "send" /\ ~reqTok'[p].nil /\ reuseT' = reqTok'[p])]_vars

\* C11 witness: the first request failed at the provider, the second one
\* called the provider again, exchanged and was forwarded
C11_Witness ==
    /\ requests = 2 /\ providerCalls = 2 /\ exchangeCalls = 1
    /\ last.kind = "response" /\ last.header = <<"Bearer", <<"access-token", 1>>>>
    /\ mu = 0 /\ reuseMu = 0

\* C12: nothing is retried inside one refresh: the calls a refresh has made
\* are at most one provider call followed by at most one exchange call;
\* every step makes at most one call and records it; the step that ends a
\* refresh, with a token or with an error, makes no further call.
C12_NoRetryWithinRefresh ==
    /\ [](calls \in {<<>>, <<"provider">>, <<"exchange">>, <<"provider", "exchange">>})
    /\ []((\A p \in Procs : pc[p] \notin {"provider", "exchange"}) => calls = <<>>)
    /\ [][/\ providerCalls' \in {providerCalls, providerCalls + 1}
          /\ exchangeCalls' \in {exchangeCalls, exchangeCalls + 1}
          /\ (providerCalls' # providerCalls) =>
               (calls' = Append(calls, "provider") /\ exchangeCalls' = exchangeCalls)
          /\ (exchangeCalls' # exchangeCalls) => (calls' = Append(calls, "exchange"))
          /\ \A p \in Procs :
               (pc[p] \in {"provider", "exchange"} /\ pc'[p] \in {"idle", "send"})
               => (/\ providerCalls' = providerCalls
                   /\ exchangeCalls' = exchangeCalls
                   /\ calls' = <<>>)]_vars

\* C12 witness: the only request failed at the exchange after one provider
\* call and one exchange call
C12_Witness ==
    /\ requests = 1 /\ providerCalls = 1 /\ exchangeCalls = 1
    /\ last.kind = "error"
    /\ last.err[1] = "token exchange failed with status"
    /\ last.err[2] = StatusBadRequest
    /\ \A p \in Procs : pc[p] = "idle"

\* C13: when the exchange endpoint answers with a status >= 400 the refresh
\* fails with an error carrying the numeric status and the raw body, and
\* nothing is cached or handed to the request even when the body is a
\* token response; a status below 400 is taken as success: its body is
\* decoded as the token response, and fails the refresh only when it
\* cannot be decoded.
C13_StatusDecidesExchange ==
    [][\A p \in Procs : \A r \in ExchangeResults :
         (ExchangeReturn(p, r) /\ ~r.neterr) =>
            IF r.status >= 400
            THEN /\ last' = [by |-> p, kind |-> "error", header |-> NoHeader,
                             err |-> <<"token exchange failed with status",
                                       r.status, ReadAll(r)>>]
                 /\ reuseT' = reuseT /\ reqTok' = reqTok /\ issue' = issue
                 /\ pc'[p] = "idle"
            ELSE IF r.decodable
            THEN /\ reuseT' = Token(AccessTokenOf(r, exchangeCalls), r.TokenType,
                                    now + r.ExpiresIn)
                 /\ reqTok'[p] = reuseT'
                 /\ pc'[p] = "send"
                 /\ last' = last
            ELSE /\ last'.err = <<"failed to decode token exchange response">>
                 /\ reuseT' = reuseT
                 /\ pc'[p] = "idle"]_vars

\* C13 witness: a status-400 answer whose body is a token response failed
\* the request and left no access token cached
C13_Witness ==
    /\ last.kind = "error" /\ Len(last.err) = 3
    /\ last.err[2] = StatusBadRequest
    /\ last.err[3][1] = "access_token" /\ last.err[3][2] = FALSE
    /\ reuseT.nil

\* the callers whose provider call or token exchange is in flight
InFlight == {p \in Procs : pc[p] \in {"provider", "exchange"}}

\* C14: refreshes of one token source exclude each other: at most one
\* caller has a provider call or a token exchange in flight, that caller
\* holds i.mu (and the reuse mutex) for as long as the call is in flight,
\* and the calls recorded belong to it alone; every other caller that
\* needs a token waits for a mutex.
C14_RefreshesMutuallyExclusive ==
    /\ Cardinality(InFlight) <= 1
    /\ \A p \in InFlight : mu = p /\ reuseMu = p
    /\ \A p \in Procs : Refreshing(p) => reuseMu = p
    /\ mu # 0 => mu \in InFlight
    /\ (InFlight = {}) => (calls = <<>> /\ ~exReq.sent)

\* C14 witness: one caller's exchange is in flight while the other caller,
\* which arrived during the refresh, waits for the mutex
C14_Witness ==
    /\ \E p \in Procs : /\ pc[p] = "exchange" /\ mu = p /\ exReq.sent
                         /\ \E q \in Procs \ {p} : pc[q] = "lock" /\ q \in waiters

\* C15: every read and every write of the cached ID token and of the
\* cached access token is made by the caller holding the reuse mutex,
\* which is held from the validity test of the access token to the end of
\* the refresh: the access token is read only in a step that finds that
\* mutex free and takes it, the ID token is read only by its holder when
\* it takes i.mu, both are written only by the holder of both mutexes, and
\* while a refresh is between its reads and its writes no other caller
\* can read either.
C15_CachedPairUnderLock ==
    /\ [][\A p \in Procs :
            /\ (pc[p] = "lock" /\ pc'[p] # "lock") => reuseMu = 0
            /\ (pc[p] = "new" /\ pc'[p] # "new") => (reuseMu = p /\ mu = 0)]_vars
    /\ [][(idToken' # idToken \/ reuseT' # reuseT) =>
            \E p \in Procs : mu = p /\ reuseMu = p /\ mu' \in {0, p}]_vars
    /\ [](reuseMu # 0 =>
            \A q \in Procs : /\ ~ENABLED ReuseTokenSourceToken(q)
                              /\ q # reuseMu => ~ENABLED TokenEnter(q))

\* C15 witness: a refresh has stored a new ID token and its exchange is in
\* flight, the access token is not yet stored, and another caller waits
C15_Witness ==
    \E p \in Procs :
        /\ pc[p] = "exchange" /\ mu = p /\ reuseMu = p
        /\ fetched # <<>> /\ idToken = fetched /\ ~Valid(reuseT, now)
        /\ \E q \in Procs \ {p} : pc[q] = "lock"

\* C16: when the context of the request that triggered a refresh is done
\* while the token exchange of that refresh is in flight, the exchange
\* call ends with the cancellation: the request fails and no token is
\* stored.
C16_CancellationReachesExchange ==
    [][\A p \in Procs :
         (pc[p] = "exchange" /\ ctxDone[p] /\ pc'[p] # "exchange")
         => (pc'[p] = "idle" /\ last'.kind = "error" /\ reuseT' = reuseT)]_vars

\* where the separators of a token string are
DotsOf(s) == {i \in 1..Len(s) : s[i].k = "dot"}
ThreeParts(s) == Cardinality(DotsOf(s)) = 2
\* the second segment of a token of three segments
PayloadOf(s) ==
    LET lo == CHOOSE i \in DotsOf(s) : \A j \in DotsOf(s) : i <= j
        hi == CHOOSE i \in DotsOf(s) : \A j \in DotsOf(s) : i >= j
    IN  SubSeq(s, lo + 1, hi - 1)
\* a token of three segments whose payload is a JSON object holding exp
HasExpClaim(s) ==
    /\ ThreeParts(s)
    /\ Len(PayloadOf(s)) = 1
    /\ PayloadOf(s)[1].b64 /\ PayloadOf(s)[1].json /\ PayloadOf(s)[1].hasExp
ExpClaim(s) == PayloadOf(s)[1].exp

\* C17: for a well-formed token with expiry claim exp (later than the
\* epoch), validation fails as expired exactly when now >= exp and
\* succeeds exactly when now < exp.
C17_ExpiredIffNowAtOrAfterExp ==
    (test.called /\ HasExpClaim(test.token) /\ ExpClaim(test.token) > 0) =>
        /\ (test.err = <<"ID token has expired">>) <=> (now >= ExpClaim(test.token))
        /\ (test.err = NoError) <=> (now < ExpClaim(test.token))

\* The failure named first by the order of C18, "" when none applies; with
\* zeroAbsent an exp of 0 counts as an absent one.
FirstFailure(s, t, zeroAbsent) ==
    IF ~ThreeParts(s) THEN "invalid JWT format"
    ELSE LET pl == PayloadOf(s) IN
    IF \E i \in 1..Len(pl) : ~pl[i].b64 THEN "failed to decode JWT payload"
    ELSE IF ~(Len(pl) = 1 /\ pl[1].json) THEN "failed to parse JWT claims"
    ELSE IF ~pl[1].hasExp \/ (zeroAbsent /\ pl[1].exp = 0)
         THEN "JWT is missing 'exp' (expiration) claim"
    ELSE IF pl[1].exp < t THEN "ID token has expired"
    ELSE ""

\* C18 as stated: the first applicable failure is reported, in the order
\* segment count, base64url, JSON, absent exp, past exp; an exp that is
\* present is never reported as missing.
C18_FirstFailureAbsentExp ==
    test.called =>
        test.err = IF FirstFailure(test.token, now, FALSE) = "" THEN NoError
                   ELSE <<FirstFailure(test.token, now, FALSE)>>

\* C18 amended: the first applicable failure is reported, in the order:
\* not exactly three segments, second segment not unpadded base64url,
\* payload not valid JSON, exp absent or equal to 0, exp earlier than now;
\* otherwise validation succeeds.  Each class has its own message.
C18_FirstFailureZeroExp ==
    test.called =>
        /\ test.err = IF FirstFailure(test.token, now, TRUE) = "" THEN NoError
                      ELSE <<FirstFailure(test.token, now, TRUE)>>
        /\ test.err \in {NoError, <<"invalid JWT format">>,
                         <<"failed to decode JWT payload">>,
                         <<"failed to parse JWT claims">>,
                         <<"JWT is missing 'exp' (expiration) claim">>,
                         <<"ID token has expired">>}

\* C18 witness: a token of two segments whose second is not base64url was
\* reported for its segment count
C18_Witness ==
    /\ test.called
    /\ Cardinality(DotsOf(test.token)) = 1
    /\ Len(test.token) = 3 /\ ~test.token[3].b64
    /\ test.err = <<"invalid JWT format">>

\* C19: validation verifies no signature: the outcome for a token of three
\* segments is the outcome for every token with the same second segment,
\* whatever its first and third segments are.
C19_OutcomeIgnoresHeaderAndSignature ==
    (test.called /\ ThreeParts(test.token)) =>
        \A h \in Segments, sg \in Segments :
            validateIDToken(Join(<<h, PayloadOf(test.token), sg>>), now) = test.err

\* C19 witness: a token with an unexpired payload was accepted although its
\* header is not base64url and its signature is empty
C19_Witness ==
    /\ test.called /\ ThreeParts(test.token) /\ HasExpClaim(test.token)
    /\ ~test.token[1].b64
    /\ test.token[Len(test.token)].k = "dot"
    /\ test.err = NoError

\* C20: the client HTTPClient returns wraps the caller's client: its
\* transport is an oauth2.Transport whose Base is the caller's transport,
\* its Timeout, CheckRedirect and Jar are the caller's, and every request
\* sent, token exchange or decorated API request, went through the
\* caller's transport (http.DefaultTransport when the caller set none).
C20_WrapsCallersClient ==
    /\ constructed =>
          /\ client.Transport.Base = cfg.orig.Transport
          /\ client.Transport.Source.http = cfg.orig
          /\ client.Timeout = cfg.orig.Timeout
          /\ client.CheckRedirect = cfg.orig.CheckRedirect
          /\ client.Jar = cfg.orig.Jar
    /\ wire \subseteq {RoundTripperOf(cfg.orig.Transport)}
    /\ (exchangeCalls > 0) => wire # {}

\* C20 witness: over a caller's client with its own transport and settings
\* an exchange was made and an API request answered
C20_Witness ==
    /\ cfg.orig = CustomClient /\ client.Timeout = 30
    /\ exchangeCalls = 1 /\ last.kind = "response"
    /\ wire = {"customTransport"}

\* C21: with an API key set, every request buildRequest returns carries
\* "Authorization: Basic base64(key:)", the key as username and the empty
\* string as password, whatever headers the caller passed, and goes out
\* with it; the path fetches, caches and exchanges no token.
C21_StaticKeyBasicAuth ==
    /\ (built.called /\ built.err = NoError /\ built.c.APIKey # "") =>
          /\ built.Header["Authorization"] =
                <<"Basic", EncodeToString(<<built.c.APIKey, ":", "">>)>>
          /\ built.sent # <<>> =>
                built.sent[1]["Authorization"] = built.Header["Authorization"]
    /\ (built.called /\ built.err # NoError) => built.Header = EmptyHeader
    /\ idToken = <<>> /\ reuseT.nil /\ providerCalls = 0 /\ exchangeCalls = 0

\* C21 witness: a request whose options carried an Authorization header of
\* the caller's went out with the basic-auth credentials of the API key
C21_Witness ==
    /\ built.sent # <<>> /\ built.c.APIKey = "tskey-api-k1"
    /\ built.opts.headers["Authorization"] # <<>>
    /\ built.sent[1]["Authorization"] = <<"Basic", basicAuth("tskey-api-k1", "")>>

\* C22: time never runs backwards, so an expired ID token stays expired.
\* A refresh that finds the cached ID token expired sends no exchange
\* request before asking the provider; when the provider then returns that
\* same token again, the request fails with "fetched ID token is invalid:
\* ID token has expired", no exchange request is sent and the cached
\* tokens stay as they were, so every later request meets the same state.
C22_StaticTokenCannotRefresh ==
    /\ [][now' >= now]_vars
    /\ [][\A p \in Procs :
            (TokenEnter(p) /\ idToken # <<>> /\ After(now, ExpOf(idToken)))
            => (exchangeCalls' = exchangeCalls /\ ~exReq'.sent)]_vars
    /\ [][\A p \in Procs : \A r \in IDTokenResults :
            (IDTokenFuncReturn(p, r) /\ ~r.err /\ seen.what = "invalid"
               /\ r.tok = seen.tok)
            => /\ pc'[p] = "idle"
               /\ last' = [by |-> p, kind |-> "error", header |-> NoHeader,
                           err |-> <<"fetched ID token is invalid",
                                     "ID token has expired">>]
               /\ exchangeCalls' = exchangeCalls /\ ~exReq'.sent
               /\ idToken' = idToken /\ reuseT' = reuseT]_vars

\* C22 witness: the ID token of the first request has expired, the provider
\* was asked a second time and the second request failed without an exchange
C22_Witness ==
    /\ requests = 2 /\ providerCalls = 2 /\ exchangeCalls = 1
    /\ idToken = createIDToken(1) /\ After(now, ExpOf(idToken))
    /\ last.err = <<"fetched ID token is invalid", "ID token has expired">>
    /\ \A p \in Procs : pc[p] = "idle"

\* C23: no step changes the configured client ID, base URL, provider or
\* the caller's http.Client once the client is constructed, and the
\* returned client keeps pointing at them: every exchange request is built
\* from the configured client ID and base URL and sent with the caller's
\* client.  Of the token source's fields only the cached ID token changes,
\* and of the reuse source's only the cached access token.
C23_ConfigurationImmutable ==
    /\ [][/\ cfg' = cfg
          /\ constructed => (constructed' /\ client' = client)]_vars
    /\ [](constructed => client.Transport.Source.http = cfg.orig)
    /\ [](exReq.sent => /\ exReq.client_id = cfg.clientID
                        /\ exReq.url = <<cfg.baseURL, "/api/v2/oauth/token-exchange">>)

\* C23 witness: after a refresh that replaced the cached ID token, the
\* second exchange request is in flight
C23_Witness ==
    /\ constructed /\ exReq.sent /\ exchangeCalls = 2 /\ providerCalls = 2
    /\ idToken = createIDToken(1000)
    /\ exReq.client_id = "client-id"

C25_ProviderFailureStopsRefresh ==
    [][\A p \in Procs : \A r \in IDTokenResults :
         (IDTokenFuncReturn(p, r) /\ (r.err \/ validateIDToken(r.tok, now) # NoError))
         => /\ exchangeCalls' = exchangeCalls
            /\ ~exReq'.sent
            /\ idToken' = idToken
            /\ reuseT' = reuseT /\ issue' = issue
            /\ pc'[p] = "idle" /\ mu' = 0 /\ reuseMu' = 0
            /\ calls' = <<>>]_vars

\* C25 witness: with an expired ID token and an access token cached, the
\* provider failed and both are still cached
C25_Witness ==
    /\ last.err = <<"failed to fetch ID token", "generator error">>
    /\ idToken = createIDToken(1) /\ After(now, ExpOf(idToken))
    /\ ~reuseT.nil
    /\ providerCalls = 2 /\ exchangeCalls = 1

\* C26: a fetched ID token is cached before the exchange request goes out:
\* while the exchange of a refresh that fetched a token is in flight, the
\* cached ID token is the fetched one and the request carries it.  However
\* the exchange ends, the cached ID token stays; and a refresh that finds
\* the cached ID token passing validation sends the exchange request with
\* it and does not call the provider.
C26_FetchedIDTokenSurvivesFailedExchange ==
    /\ [](\A p \in Procs : (pc[p] = "exchange" /\ fetched # <<>>) =>
            (idToken = fetched /\ exReq.jwt = fetched))
    /\ [][\A p \in Procs : (pc[p] = "exchange" /\ pc'[p] # "exchange") =>
            (idToken' = idToken /\ idToken # <<>>)]_vars
    /\ [][\A p \in Procs :
            (TokenEnter(p) /\ idToken # <<>> /\ validateIDToken(idToken, now) = NoError)
            => /\ pc'[p] = "exchange"
               /\ exReq'.jwt = idToken
               /\ providerCalls' = providerCalls
               /\ exchangeCalls' = exchangeCalls + 1]_vars

\* C26 witness: the exchange of the first request failed; the second
\* request is exchanging the ID token cached then, the provider having
\* been called once
C26_Witness ==
    /\ requests = 2 /\ providerCalls = 1 /\ exchangeCalls = 2
    /\ reuseT.nil /\ seen.what = "valid" /\ exReq.jwt = idToken
    /\ \E p \in Procs : pc[p] = "exchange"

\* a token of three segments whose payload is a JSON object that either
\* has no exp or has exp = 0
DecodesToZeroExp(s) ==
    /\ ThreeParts(s)
    /\ Len(PayloadOf(s)) = 1
    /\ PayloadOf(s)[1].b64 /\ PayloadOf(s)[1].json
    /\ (~PayloadOf(s)[1].hasExp \/ PayloadOf(s)[1].exp = 0)
\* the token with its second segment replaced
WithPayload(s, pl) ==
    LET lo == CHOOSE i \in DotsOf(s) : \A j \in DotsOf(s) : i <= j
        hi == CHOOSE i \in DotsOf(s) : \A j \in DotsOf(s) : i >= j
    IN  SubSeq(s, 1, lo) \o pl \o SubSeq(s, hi, Len(s))

\* C27: a payload whose exp decodes to zero, be it absent or written as 0,
\* is rejected with "missing 'exp'", at any time, and never with
\* "expired"; that error is given for no other token; and a token with
\* exp = 0 gets the result of the same token with a payload without exp.
C27_ZeroExpIsMissingExp ==
    test.called =>
        /\ DecodesToZeroExp(test.token) <=>
              test.err = <<"JWT is missing 'exp' (expiration) claim">>
        /\ (HasExpClaim(test.token) /\ ExpClaim(test.token) = 0) =>
              /\ test.err # <<"ID token has expired">>
              /\ test.err = validateIDToken(WithPayload(test.token, <<Hdr>>), now)

\* C27 witness: a token with "exp":0 validated after the epoch was
\* reported as missing the claim
C27_Witness ==
    /\ test.called /\ HasExpClaim(test.token) /\ ExpClaim(test.token) = 0
    /\ After(now, 0)
    /\ test.err = <<"JWT is missing 'exp' (expiration) claim">>

\* C28: an access token obtained with a declared lifetime expires_in <= 0
\* has a stored expiry that is not later than the time of the exchange, and
\* is never served from the cache: every request that takes the reuse
\* mutex while it is cached goes on to a refresh of its own.
C28_NonPositiveLifetimeNeverCached ==
    /\ []((~reuseT.nil /\ issue.ExpiresIn <= 0) => ~After(reuseT.Expiry, issue.at))
    /\ [][\A p \in Procs :
            (ReuseTokenSourceToken(p) /\ ~reuseT.nil /\ issue.ExpiresIn <= 0)
            => CacheMiss(p)]_vars

\* C29: every step that ends a refresh, with a token, an error or a panic,
\* releases both mutexes, so a mutex is held only by a caller whose
\* refresh is running and the callers are never all waiting for a mutex;
\* and when the provider and the exchange call return, every caller that
\* has entered RoundTrip gets a token or an error.
C29_EveryCallerGetsTokenOrError ==
    /\ [][\A p \in Procs : (Refreshing(p) /\ ~Refreshing(p)') =>
            (mu' = 0 /\ reuseMu' = 0)]_vars
    /\ [](/\ reuseMu # 0 => Refreshing(reuseMu)
          /\ mu # 0 => (reuseMu = mu /\ pc[mu] \in {"provider", "exchange"})
          /\ \E p \in Procs : pc[p] \notin {"lock", "new"} \/ ENABLED (
                 ReuseTokenSourceToken(p) \/ TokenEnter(p)))
    /\ \A p \in Procs :
          (cfg.hasIDTokenFunc /\ pc[p] \in {"lock", "new", "provider", "exchange"})
          ~> \/ pc[p] = "send" /\ ~reqTok[p].nil
             \/ pc[p] = "idle" /\ last.by = p /\ last.kind = "error"

\* C29 witness: a caller waits for the reuse mutex, which the failed
\* refresh of the other caller has just released
C29_Witness ==
    \E p \in Procs, q \in Procs :
        /\ p # q /\ pc[p] = "lock" /\ pc[q] = "idle"
        /\ reuseMu = 0 /\ mu = 0
        /\ last.by = q /\ last.kind = "error"

\* C30: the entries handed to the handler are, in order and once each, the
\* first entries of the response, and all of them when the call returns
\* nil.  A handler call that returns an error is the last one: the call
\* returns at once with that error wrapped as "handler error: ...".  Once
\* the request's context is done the next turn of the loop ends the call
\* and no further entry reaches the handler: the call returns an error
\* when entries remain.  After the return the handler is not called.
C30_HandlerCalledInOrderUntilError ==
    /\ [](/\ Len(flow.handled) <= Len(flow.resp.entries)
          /\ flow.handled = SubSeq(flow.resp.entries, 1, Len(flow.handled))
          /\ (flow.pc = "done" /\ flow.err = NoError) =>
                flow.handled = flow.resp.entries)
    /\ [][\A herr \in BOOLEAN, buffered \in BOOLEAN :
            (DecodeAndHandle(herr, buffered) /\ flow'.handled # flow.handled)
            => /\ flow'.handled = Append(flow.handled,
                                         flow.resp.entries[Len(flow.handled) + 1])
               /\ herr => /\ flow'.pc = "done"
                          /\ flow'.err = <<"handler error", "test handler error">>
               /\ ~herr => (flow'.pc = "loop" /\ flow'.err = NoError)]_vars
    /\ [][(flow.ctxErr \/ flow.pc = "done") =>
            /\ flow'.handled = flow.handled
            /\ flow'.pc = "done"
            /\ flow.pos < Len(flow.resp.entries) => flow'.err # NoError]_vars

\* C30 witness: the handler failed on the first of two entries and the
\* second never reached it
C30_Witness ==
    /\ flow.pc = "done"
    /\ flow.err = <<"handler error", "test handler error">>
    /\ Len(flow.handled) = 1 /\ Len(flow.resp.entries) = 2
    /\ flow.handled[1] = flow.resp.entries[1]
====
